---- MODULE Spec2Model ----
(***************************************************************************)
(* The image-edit engine of the photo editor (class ImageManager of        *)
(* question1.py): load/save, crop, resize, grayscale, blur and the         *)
(* undo/redo/reset history.                                                *)
(*                                                                         *)
(* An image (a numpy array) is a record: w and h are shape[1] and          *)
(* shape[0], ch is the number of channels, and px stands for the pixel     *)
(* data.  px is the sequence of transformations that produced the pixels   *)
(* from a decoded file, so two images with equal records have equal bytes. *)
(* The methods are operators from the object (a record of its fields) and  *)
(* the arguments to the object after the call and what the call returned   *)
(* or raised.  The window around the engine (class PhotoEditorApp) is a    *)
(* second record, app, with its handlers as operators of the same kind,    *)
(* and refs follows the identity of the arrays the engine refers to.       *)
(* The player of the game of question2.py is the record player.            *)
(***************************************************************************)
EXTENDS Integers, Sequences, FiniteSets, TLC

VARIABLES
    img_mgr,   \* the ImageManager object: original, current, resize_base, history, redo_stack
    last,      \* the last call: method, arguments, outcome, and the object before the call
    prev,      \* method and outcome of the two calls before the last one, latest first
    steps,     \* number of calls made so far (bounded exploration)
    scen,      \* position in the scenario "load, mutations, undos" (history-cap runs)
    trace,     \* the calls made so far, method and arguments (end-to-end runs)
    app,       \* the PhotoEditorApp window around the ImageManager (user-interface runs)
    refs,      \* which array object each field and stack entry refers to (ownership runs)
    player     \* the Player of the game of question2.py (game runs)

vars == <<img_mgr, last, prev, steps, scen, trace, app, refs, player>>

\* ---------------------------------------------------------------- bounds
MaxSteps == 5      \* calls per behaviour of Spec
MaxBlur == 22      \* longest chain of transformations in the history-cap runs
MaxCalls == 7      \* calls per behaviour of the end-to-end runs
MaxEvents == 6     \* user events per behaviour of the user-interface runs
MaxOwned == 6      \* calls per behaviour of the ownership runs
MaxKills == 5      \* enemies killed per behaviour of the game runs
MaxLives == 5      \* lives the player can reach in the game runs

\* ------------------------------------------------------- program constants
HistoryLimit == 20         \* "Keep only the last 20 states"
BLUR_KERNEL == <<9, 9>>
MIN_RESIZE_PERCENT == 5
MAX_RESIZE_PERCENT == 300
DEFAULT_RESIZE_PERCENT == 100

\* ------------------------------------------------------------- primitives
Max(a, b) == IF a >= b THEN a ELSE b
Min(a, b) == IF a <= b THEN a ELSE b

\* Python's int(n / d) for d > 0: truncation toward zero.
PyInt(n, d) == IF n >= 0 THEN n \div d ELSE -((-n) \div d)

\* Python's None, where an image is expected.
None == [w |-> 0, h |-> 0, ch |-> 0, px |-> <<>>]

\* What a call did: returned a value or raised an exception.
Return(v) == [kind |-> "return", val |-> v]
Raise(e) == [kind |-> "raise", val |-> e]
Out(self, ret) == [self |-> self, ret |-> ret]

\* The files on disk: cv2.imread gives a 3-channel BGR array, or None for a
\* file it cannot read or decode.
imread(path) ==
    CASE path = "a.png" -> [w |-> 100, h |-> 100, ch |-> 3, px |-> <<<<"a.png">>>>]
      [] path = "b.png" -> [w |-> 3, h |-> 1, ch |-> 3, px |-> <<<<"b.png">>>>]
      [] OTHER -> None

\* cv2.imwrite returns False when it cannot write the file.
imwrite(path, img) == path = "out.png"

\* ndarray.copy(): a new array with the same contents.
copy(img) == img

\* current[y1:y2, x1:x2].copy() for 0 <= x1 < x2 <= w and 0 <= y1 < y2 <= h.
\* The slice of the whole array has the same pixels.
Slice(img, y1, y2, x1, x2) ==
    IF x1 = 0 /\ y1 = 0 /\ x2 = img.w /\ y2 = img.h
    THEN img
    ELSE [img EXCEPT !.w = x2 - x1, !.h = y2 - y1,
                     !.px = Append(@, <<"crop", x1, y1, x2, y2>>)]

\* cv2.resize(img, (w, h), interpolation=cv2.INTER_AREA); a resize to the
\* size the image already has copies it.
cv2_resize(img, w, h) ==
    IF w = img.w /\ h = img.h
    THEN img
    ELSE [img EXCEPT !.w = w, !.h = h, !.px = Append(@, <<"resize", w, h>>)]

\* All channels of every pixel are equal: the image went through grayscale
\* (crop, resize and blur treat the channels alike and keep it so).
IsGray(img) == \E i \in 1..Len(img.px) : img.px[i] = <<"gray">>

\* cv2.cvtColor(img, cv2.COLOR_BGR2GRAY): one luminance channel; the
\* luminance of a pixel whose channels are all v is v.
BGR2GRAY(img) ==
    [img EXCEPT !.ch = 1,
                !.px = IF IsGray(img) THEN @ ELSE Append(@, <<"gray">>)]

\* cv2.cvtColor(gray, cv2.COLOR_GRAY2BGR): the channel repeated three times.
GRAY2BGR(img) == [img EXCEPT !.ch = 3]

\* cv2.GaussianBlur(img, BLUR_KERNEL, 0).
GaussianBlur(img, ksize) ==
    [img EXCEPT !.px = Append(@, <<"blur", ksize[1], ksize[2]>>)]

\* -------------------------------------------------------------- ImageManager
\* __init__
NewImageManager ==
    [original |-> None, current |-> None, resize_base |-> None,
     history |-> <<>>, redo_stack |-> <<>>]

\* load that leaves the redo stack as it is.
load_keep_redo(self, path) ==
    LET img == imread(path) IN
    IF img = None
    THEN Out(self, Raise("ValueError: Failed to load image."))
    ELSE Out([self EXCEPT !.original = copy(img),
                          !.current = copy(img),
                          !.resize_base = copy(img),
                          !.history = <<>>],
             Return("None"))

\* load that clears the stacks before it knows the file was decoded.
load_clear_first(self, path) ==
    LET img == imread(path)
        cleared == [self EXCEPT !.history = <<>>, !.redo_stack = <<>>]
    IN
    IF img = None
    THEN Out(cleared, Raise("ValueError: Failed to load image."))
    ELSE Out([cleared EXCEPT !.original = copy(img),
                             !.current = copy(img),
                             !.resize_base = copy(img)],
             Return("None"))

\* load that reads straight into current and checks afterwards.
load_assign_first(self, path) ==
    LET img == imread(path) IN
    IF img = None
    THEN Out([self EXCEPT !.current = img], Raise("ValueError: Failed to load image."))
    ELSE Out([self EXCEPT !.original = copy(img),
                          !.current = copy(img),
                          !.resize_base = copy(img),
                          !.history = <<>>,
                          !.redo_stack = <<>>],
             Return("None"))

load(self, path) ==
    LET img == imread(path) IN
    IF img = None
    THEN Out(self, Raise("ValueError: Failed to load image."))
    ELSE Out([self EXCEPT !.original = copy(img),
                          !.current = copy(img),
                          !.resize_base = copy(img),
                          !.history = <<>>,
                          !.redo_stack = <<>>],
             Return("None"))

\* save that does not check that an image is loaded.
save_unchecked(self, path) ==
    IF ~imwrite(path, self.current)
    THEN Out(self, Raise("ValueError: Failed to save image."))
    ELSE Out(self, Return("None"))

save(self, path) ==
    IF self.current = None
    THEN Out(self, Raise("ValueError: No image to save."))
    ELSE IF ~imwrite(path, self.current)
    THEN Out(self, Raise("ValueError: Failed to save image."))
    ELSE Out(self, Return("None"))

\* push_history dropping the newest entry instead of the oldest.
push_history_pop_newest(self) ==
    IF self.current # None
    THEN LET h == Append(self.history, copy(self.current)) IN
         [self EXCEPT !.history = IF Len(h) > HistoryLimit
                                  THEN SubSeq(h, 1, Len(h) - 1) ELSE h,
                      !.redo_stack = <<>>]
    ELSE self

\* push_history that keeps the redo stack.
push_history_keep_redo(self) ==
    IF self.current # None
    THEN LET h == Append(self.history, copy(self.current)) IN
         [self EXCEPT !.history = IF Len(h) > HistoryLimit THEN Tail(h) ELSE h]
    ELSE self

\* push_history without the limit on the history.
push_history_uncapped(self) ==
    IF self.current # None
    THEN [self EXCEPT !.history = Append(self.history, copy(self.current)),
                      !.redo_stack = <<>>]
    ELSE self

push_history(self) ==
    IF self.current # None
    THEN LET h == Append(self.history, copy(self.current)) IN
         [self EXCEPT !.history = IF Len(h) > HistoryLimit THEN Tail(h) ELSE h,
                      !.redo_stack = <<>>]
    ELSE self

\* crop saving for undo before it validates the rectangle.
crop_push_first(self, coords) ==
    IF self.current = None
    THEN Out(self, Raise("AttributeError: 'NoneType' object has no attribute 'shape'"))
    ELSE
    LET h == self.current.h
        w == self.current.w
        x1 == Max(0, Min(coords[1], coords[3]))
        x2 == Min(w, Max(coords[1], coords[3]))
        y1 == Max(0, Min(coords[2], coords[4]))
        y2 == Min(h, Max(coords[2], coords[4]))
        pushed == push_history(self)
        cropped == copy(Slice(pushed.current, y1, y2, x1, x2))
    IN  IF x2 <= x1 \/ y2 <= y1
        THEN Out(pushed, Raise("ValueError: Invalid crop area."))
        ELSE Out([pushed EXCEPT !.current = cropped,
                                !.resize_base = copy(cropped)],
                 Return("None"))

\* crop that takes the corners in the order given.
crop_no_order(self, coords) ==
    IF self.current = None
    THEN Out(self, Raise("AttributeError: 'NoneType' object has no attribute 'shape'"))
    ELSE
    LET h == self.current.h
        w == self.current.w
        x1 == Max(0, coords[1])
        x2 == Min(w, coords[3])
        y1 == Max(0, coords[2])
        y2 == Min(h, coords[4])
        pushed == push_history(self)
        cropped == copy(Slice(pushed.current, y1, y2, x1, x2))
    IN  IF x2 <= x1 \/ y2 <= y1
        THEN Out(self, Raise("ValueError: Invalid crop area."))
        ELSE Out([pushed EXCEPT !.current = cropped,
                                !.resize_base = copy(cropped)],
                 Return("None"))

\* crop that orders the corners but does not clamp them to the image.
crop_unclamped(self, coords) ==
    IF self.current = None
    THEN Out(self, Raise("AttributeError: 'NoneType' object has no attribute 'shape'"))
    ELSE
    LET x1 == Min(coords[1], coords[3])
        x2 == Max(coords[1], coords[3])
        y1 == Min(coords[2], coords[4])
        y2 == Max(coords[2], coords[4])
        pushed == push_history(self)
        cropped == copy(Slice(pushed.current, y1, y2, x1, x2))
    IN  IF x2 <= x1 \/ y2 <= y1
        THEN Out(self, Raise("ValueError: Invalid crop area."))
        ELSE Out([pushed EXCEPT !.current = cropped,
                                !.resize_base = copy(cropped)],
                 Return("None"))

crop(self, coords) ==
    IF self.current = None
    THEN Out(self, Raise("AttributeError: 'NoneType' object has no attribute 'shape'"))
    ELSE
    LET h == self.current.h
        w == self.current.w
        x1 == Max(0, Min(coords[1], coords[3]))
        x2 == Min(w, Max(coords[1], coords[3]))
        y1 == Max(0, Min(coords[2], coords[4]))
        y2 == Min(h, Max(coords[2], coords[4]))
        pushed == push_history(self)
        cropped == copy(Slice(pushed.current, y1, y2, x1, x2))
    IN  IF x2 <= x1 \/ y2 <= y1
        THEN Out(self, Raise("ValueError: Invalid crop area."))
        ELSE Out([pushed EXCEPT !.current = cropped,
                                !.resize_base = copy(cropped)],
                 Return("None"))

\* resize scaling current instead of resize_base.
resize_from_current(self, percent) ==
    IF self.resize_base = None
    THEN Out(self, Return("None"))
    ELSE
    LET pushed == push_history(self)
        w == Max(1, PyInt(pushed.current.w * percent, 100))
        h == Max(1, PyInt(pushed.current.h * percent, 100))
    IN  Out([pushed EXCEPT !.current = cv2_resize(pushed.current, w, h)],
            Return("None"))

\* resize without the floor of 1 pixel.
resize_unclamped(self, percent) ==
    IF self.resize_base = None
    THEN Out(self, Return("None"))
    ELSE
    LET pushed == push_history(self)
        w == PyInt(pushed.resize_base.w * percent, 100)
        h == PyInt(pushed.resize_base.h * percent, 100)
    IN  Out([pushed EXCEPT !.current = cv2_resize(pushed.resize_base, w, h)],
            Return("None"))

\* Python's round(n / d) for d > 0: to the nearest integer, ties to even.
PyRound(n, d) ==
    LET q == n \div d
        r == n % d
    IN  IF 2 * r < d THEN q
        ELSE IF 2 * r > d THEN q + 1
        ELSE IF q % 2 = 0 THEN q ELSE q + 1

\* resize rounding the target size to the nearest pixel.
resize_rounding(self, percent) ==
    IF self.resize_base = None
    THEN Out(self, Return("None"))
    ELSE
    LET pushed == push_history(self)
        w == Max(1, PyRound(pushed.resize_base.w * percent, 100))
        h == Max(1, PyRound(pushed.resize_base.h * percent, 100))
    IN  Out([pushed EXCEPT !.current = cv2_resize(pushed.resize_base, w, h)],
            Return("None"))

resize(self, percent) ==
    IF self.resize_base = None
    THEN Out(self, Return("None"))
    ELSE
    LET pushed == push_history(self)
        w == Max(1, PyInt(pushed.resize_base.w * percent, 100))
        h == Max(1, PyInt(pushed.resize_base.h * percent, 100))
    IN  Out([pushed EXCEPT !.current = cv2_resize(pushed.resize_base, w, h)],
            Return("None"))

\* grayscale that does not save for undo.
grayscale_no_push(self) ==
    IF self.current # None
    THEN LET gray == BGR2GRAY(self.current)
         IN  Out([self EXCEPT !.current = GRAY2BGR(gray)], Return("None"))
    ELSE Out(self, Return("None"))

\* grayscale that converts the loaded image in place as well.
grayscale_in_place(self) ==
    IF self.current # None
    THEN LET pushed == push_history(self)
             gray == BGR2GRAY(pushed.current)
         IN  Out([pushed EXCEPT !.current = GRAY2BGR(gray),
                                !.original = GRAY2BGR(BGR2GRAY(pushed.original))],
                 Return("None"))
    ELSE Out(self, Return("None"))

\* grayscale that keeps the one-channel image, without converting it back.
grayscale_one_channel(self) ==
    IF self.current # None
    THEN LET pushed == push_history(self)
             gray == BGR2GRAY(pushed.current)
         IN  Out([pushed EXCEPT !.current = gray], Return("None"))
    ELSE Out(self, Return("None"))

grayscale(self) ==
    IF self.current # None
    THEN LET pushed == push_history(self)
             gray == BGR2GRAY(pushed.current)
         IN  Out([pushed EXCEPT !.current = GRAY2BGR(gray)], Return("None"))
    ELSE Out(self, Return("None"))

blur(self) ==
    IF self.current # None
    THEN LET pushed == push_history(self) IN
         Out([pushed EXCEPT !.current = GaussianBlur(pushed.current, BLUR_KERNEL)],
             Return("None"))
    ELSE Out(self, Return("None"))

\* undo taking the oldest entry of the history instead of the newest.
undo_pop_oldest(self) ==
    IF self.history # <<>>
    THEN LET popped == Head(self.history)
         IN  Out([self EXCEPT !.redo_stack = Append(@, copy(self.current)),
                              !.history = Tail(@),
                              !.current = popped,
                              !.resize_base = copy(popped)],
                 Return("True"))
    ELSE Out(self, Return("False"))

\* undo that pops without looking whether there is a history.
undo_unguarded(self) ==
    IF self.history # <<>>
    THEN LET n == Len(self.history)
             popped == self.history[n]
         IN  Out([self EXCEPT !.redo_stack = Append(@, copy(self.current)),
                              !.history = SubSeq(@, 1, n - 1),
                              !.current = popped,
                              !.resize_base = copy(popped)],
                 Return("True"))
    ELSE Out([self EXCEPT !.redo_stack = Append(@, copy(self.current))],
             Raise("IndexError: pop from empty list"))

\* undo that leaves resize_base as the undone operation had it.
undo_keep_base(self) ==
    IF self.history # <<>>
    THEN LET n == Len(self.history)
             popped == self.history[n]
         IN  Out([self EXCEPT !.redo_stack = Append(@, copy(self.current)),
                              !.history = SubSeq(@, 1, n - 1),
                              !.current = popped],
                 Return("True"))
    ELSE Out(self, Return("False"))

undo(self) ==
    IF self.history # <<>>
    THEN LET n == Len(self.history)
             popped == self.history[n]
         IN  Out([self EXCEPT !.redo_stack = Append(@, copy(self.current)),
                              !.history = SubSeq(@, 1, n - 1),
                              !.current = popped,
                              !.resize_base = copy(popped)],
                 Return("True"))
    ELSE Out(self, Return("False"))

\* redo taking the oldest entry of the redo stack instead of the newest.
redo_pop_oldest(self) ==
    IF self.redo_stack # <<>>
    THEN LET popped == Head(self.redo_stack)
         IN  Out([self EXCEPT !.history = Append(@, copy(self.current)),
                              !.redo_stack = Tail(@),
                              !.current = popped,
                              !.resize_base = copy(popped)],
                 Return("True"))
    ELSE Out(self, Return("False"))

\* redo reading the newest redo entry without taking it off the stack.
redo_peek(self) ==
    IF self.redo_stack # <<>>
    THEN LET n == Len(self.redo_stack)
             popped == self.redo_stack[n]
         IN  Out([self EXCEPT !.history = Append(@, copy(self.current)),
                              !.current = popped,
                              !.resize_base = copy(popped)],
                 Return("True"))
    ELSE Out(self, Return("False"))

\* redo that does not put the image it replaces back on the undo stack.
redo_no_push(self) ==
    IF self.redo_stack # <<>>
    THEN LET n == Len(self.redo_stack)
             popped == self.redo_stack[n]
         IN  Out([self EXCEPT !.redo_stack = SubSeq(@, 1, n - 1),
                              !.current = popped,
                              !.resize_base = copy(popped)],
                 Return("True"))
    ELSE Out(self, Return("False"))

\* redo that pushes and pops without looking whether there is anything to
\* redo.
redo_unguarded(self) ==
    IF self.redo_stack # <<>>
    THEN LET n == Len(self.redo_stack)
             popped == self.redo_stack[n]
         IN  Out([self EXCEPT !.history = Append(@, copy(self.current)),
                              !.redo_stack = SubSeq(@, 1, n - 1),
                              !.current = popped,
                              !.resize_base = copy(popped)],
                 Return("True"))
    ELSE Out([self EXCEPT !.history = Append(@, copy(self.current))],
             Raise("IndexError: pop from empty list"))

redo(self) ==
    IF self.redo_stack # <<>>
    THEN LET n == Len(self.redo_stack)
             popped == self.redo_stack[n]
         IN  Out([self EXCEPT !.history = Append(@, copy(self.current)),
                              !.redo_stack = SubSeq(@, 1, n - 1),
                              !.current = popped,
                              !.resize_base = copy(popped)],
                 Return("True"))
    ELSE Out(self, Return("False"))

\* reset that leaves the undo stack as it is.
reset_keep_history(self) ==
    IF self.original # None
    THEN LET cur == copy(self.original) IN
         Out([self EXCEPT !.current = cur,
                          !.resize_base = copy(cur),
                          !.redo_stack = <<>>],
             Return("True"))
    ELSE Out(self, Return("False"))

reset(self) ==
    IF self.original # None
    THEN LET cur == copy(self.original) IN
         Out([self EXCEPT !.current = cur,
                          !.resize_base = copy(cur),
                          !.history = <<>>,
                          !.redo_stack = <<>>],
             Return("True"))
    ELSE Out(self, Return("False"))

\* --------------------------------------------------------- array identities
\* The same methods, followed at the level of object identity: every numpy
\* array is a numbered object (0 stands for None), and each field and stack
\* entry holds the number of the array it refers to. A .copy() and a cv2 call
\* make a new array; a plain assignment or a pop hands on the existing one.
\* The numbers of arrays nothing refers to any more are used again.
NoRefs == [original |-> 0, current |-> 0, resize_base |-> 0,
           history |-> <<>>, redo_stack |-> <<>>]

Range(s) == {s[i] : i \in 1..Len(s)}

Held(r) ==
    ({r.original, r.current, r.resize_base} \ {0})
        \cup Range(r.history) \cup Range(r.redo_stack)

\* A new array: the first number that neither the object nor the method's
\* local variables refer to.
NewArray(r, locals) ==
    LET used == Held(r) \cup locals IN
    CHOOSE n \in 1..(Cardinality(used) + 1) :
        n \notin used /\ \A m \in 1..(n - 1) : m \in used

load_refs(r, self, path) ==
    IF imread(path) = None
    THEN r
    ELSE LET img == NewArray(r, {})
             r1 == [r EXCEPT !.original = NewArray(r, {img})]
             r2 == [r1 EXCEPT !.current = NewArray(r1, {img})]
             r3 == [r2 EXCEPT !.resize_base = NewArray(r2, {img})]
         IN  [r3 EXCEPT !.history = <<>>, !.redo_stack = <<>>]

push_history_refs(r) ==
    IF r.current # 0
    THEN LET h == Append(r.history, NewArray(r, {})) IN
         [r EXCEPT !.history = IF Len(h) > HistoryLimit THEN Tail(h) ELSE h,
                   !.redo_stack = <<>>]
    ELSE r

crop_refs(r, self, coords) ==
    IF crop(self, coords).ret.kind = "raise"
    THEN r
    ELSE LET pushed == push_history_refs(r)
             r1 == [pushed EXCEPT !.current = NewArray(pushed, {})]
         IN  [r1 EXCEPT !.resize_base = NewArray(r1, {})]

resize_refs(r, self, percent) ==
    IF self.resize_base = None
    THEN r
    ELSE LET pushed == push_history_refs(r) IN
         [pushed EXCEPT !.current = NewArray(pushed, {})]

grayscale_refs(r, self) ==
    IF self.current = None
    THEN r
    ELSE LET pushed == push_history_refs(r)
             gray == NewArray(pushed, {})
         IN  [pushed EXCEPT !.current = NewArray(pushed, {gray})]

blur_refs(r, self) ==
    IF self.current = None
    THEN r
    ELSE LET pushed == push_history_refs(r) IN
         [pushed EXCEPT !.current = NewArray(pushed, {})]

\* undo handing the popped array to resize_base as well, without a copy.
undo_refs_shared(r, self) ==
    IF r.history = <<>>
    THEN r
    ELSE LET n == Len(r.history)
             r1 == [r EXCEPT !.redo_stack = Append(@, NewArray(r, {}))]
             r2 == [r1 EXCEPT !.current = r1.history[n],
                              !.history = SubSeq(@, 1, n - 1)]
         IN  [r2 EXCEPT !.resize_base = r2.current]

undo_refs(r, self) ==
    IF r.history = <<>>
    THEN r
    ELSE LET n == Len(r.history)
             r1 == [r EXCEPT !.redo_stack = Append(@, NewArray(r, {}))]
             r2 == [r1 EXCEPT !.current = r1.history[n],
                              !.history = SubSeq(@, 1, n - 1)]
         IN  [r2 EXCEPT !.resize_base = NewArray(r2, {})]

redo_refs(r, self) ==
    IF r.redo_stack = <<>>
    THEN r
    ELSE LET n == Len(r.redo_stack)
             r1 == [r EXCEPT !.history = Append(@, NewArray(r, {}))]
             r2 == [r1 EXCEPT !.current = r1.redo_stack[n],
                              !.redo_stack = SubSeq(@, 1, n - 1)]
         IN  [r2 EXCEPT !.resize_base = NewArray(r2, {})]

reset_refs(r, self) ==
    IF r.original = 0
    THEN r
    ELSE LET r1 == [r EXCEPT !.current = NewArray(r, {})]
             r2 == [r1 EXCEPT !.resize_base = NewArray(r1, {})]
         IN  [r2 EXCEPT !.history = <<>>, !.redo_stack = <<>>]

\* ---------------------------------------------------------- PhotoEditorApp
\* The window's state: the crop drag, the resize slider (resize_var) and its
\* label, whether the buttons and the slider are enabled, the bounding box of
\* the image item on the main canvas (<<>> when nothing is drawn), the status
\* bar, and the title of the message box the latest handler showed ("" if it
\* showed none).
NewApp ==
    [crop_start |-> <<>>, cropping_mode |-> FALSE,
     resize_var |-> DEFAULT_RESIZE_PERCENT, resize_label |-> DEFAULT_RESIZE_PERCENT,
     buttons |-> "disabled", image_item |-> <<>>, status |-> "", dialog |-> ""]

\* What a handler leaves behind: the window, the ImageManager, and the
\* ImageManager calls it made. Handlers return None.
UI(a, self, calls) == [app |-> a, self |-> self, ret |-> Return("None"), calls |-> calls]

\* The main canvas is cleared and current, if any, drawn at (0, 0), anchored
\* at its top-left corner.
_update_all_displays(a, self) ==
    IF self.current # None
    THEN [a EXCEPT !.image_item = <<0, 0, self.current.w, self.current.h>>]
    ELSE [a EXCEPT !.image_item = <<>>]

open_image(a, self, path) ==
    IF path = ""
    THEN UI([a EXCEPT !.dialog = ""], self, <<>>)
    ELSE LET out == load(self, path) IN
         IF out.ret.kind = "return"
         THEN UI([_update_all_displays(a, out.self) EXCEPT
                      !.buttons = "normal", !.status = "Loaded: " \o path, !.dialog = ""],
                 out.self, <<<<"load", <<path>>>>>>)
         ELSE UI([a EXCEPT !.status = "Load failed.", !.dialog = "Error"],
                 out.self, <<<<"load", <<path>>>>>>)

activate_crop(a, self) ==
    IF self.current = None
    THEN UI([a EXCEPT !.dialog = "No Image"], self, <<>>)
    ELSE UI([a EXCEPT !.cropping_mode = TRUE, !.dialog = "",
                      !.status = "Drag to crop, Esc to cancel."], self, <<>>)

_start_crop(a, self, event) ==
    IF ~a.cropping_mode
    THEN UI([a EXCEPT !.dialog = ""], self, <<>>)
    ELSE UI([a EXCEPT !.crop_start = event, !.dialog = ""], self, <<>>)

\* The pairs <<n, w>>, for n one of the coordinates -5, 10, 29, 60, 120 and
\* w up to 100, on which the double-precision product (n / w) * w falls
\* short of n, so that int() of it is one nearer to zero than n.
FloatShort ==
    {
     <<-5, 77>>, <<10, 77>>, <<29, 25>>, <<29, 50>>, <<29, 55>>, <<29, 67>>,
     <<29, 91>>, <<29, 100>>, <<60, 11>>, <<60, 13>>, <<60, 22>>, <<60, 26>>,
     <<60, 44>>, <<60, 52>>, <<60, 55>>, <<60, 88>>, <<120, 11>>, <<120, 13>>,
     <<120, 22>>, <<120, 26>>, <<120, 44>>, <<120, 52>>, <<120, 55>>, <<120, 88>>}

\* int((n / w) * c) in double precision. Image widths above 100 and view
\* coordinates other than the ones FloatShort lists are outside the runs.
int_scaled(n, w, c) ==
    IF w = c /\ <<n, w>> \in FloatShort
    THEN IF n > 0 THEN n - 1 ELSE n + 1
    ELSE PyInt(n * c, w)

\* crop_region without the upper clamp on the end corner.
crop_region_no_upper_clamp(crop_start, event, bbox, shape) ==
    LET x1 == crop_start[1]   y1 == crop_start[2]
        x2 == event[1]        y2 == event[2]
        ix1 == bbox[1]        iy1 == bbox[2]
        img_w == bbox[3] - bbox[1]
        img_h == bbox[4] - bbox[2]
        ch == shape[1]        cw == shape[2]
    IN  <<IF x1 - ix1 <= 0 THEN 0 ELSE int_scaled(x1 - ix1, img_w, cw),
          IF y1 - iy1 <= 0 THEN 0 ELSE int_scaled(y1 - iy1, img_h, ch),
          int_scaled(x2 - ix1, img_w, cw),
          int_scaled(y2 - iy1, img_h, ch)>>

\* The image-space rectangle <<cx1, cy1, cx2, cy2>> of a drag from crop_start
\* to event over an image of the given shape (<<height, width>>) drawn in
\* bbox (of positive extent): the start corner is clamped from below only
\* (max(0, .)), the end corner from above only (min(1, .)), the corners are
\* taken in the order of the drag, and int() truncates.
crop_region(crop_start, event, bbox, shape) ==
    LET x1 == crop_start[1]   y1 == crop_start[2]
        x2 == event[1]        y2 == event[2]
        ix1 == bbox[1]        iy1 == bbox[2]
        img_w == bbox[3] - bbox[1]
        img_h == bbox[4] - bbox[2]
        ch == shape[1]        cw == shape[2]
    IN  <<IF x1 - ix1 <= 0 THEN 0 ELSE int_scaled(x1 - ix1, img_w, cw),
          IF y1 - iy1 <= 0 THEN 0 ELSE int_scaled(y1 - iy1, img_h, ch),
          IF x2 - ix1 >= img_w THEN cw ELSE int_scaled(x2 - ix1, img_w, cw),
          IF y2 - iy1 >= img_h THEN ch ELSE int_scaled(y2 - iy1, img_h, ch)>>

_finish_crop(a, self, event) ==
    IF ~a.cropping_mode \/ a.crop_start = <<>>
    THEN UI([a EXCEPT !.dialog = ""], self, <<>>)
    ELSE
    LET done == [a EXCEPT !.cropping_mode = FALSE, !.dialog = ""]
        bbox == a.image_item
    IN  IF bbox = <<>>
        THEN UI(done, self, <<>>)
        ELSE IF bbox[3] = bbox[1] \/ bbox[4] = bbox[2]
        THEN UI([done EXCEPT !.dialog = "Error"], self, <<>>)
        ELSE
        LET rect == crop_region(a.crop_start, event, bbox,
                                <<self.current.h, self.current.w>>)
            out == crop(self, rect)
        IN  IF rect[3] > rect[1] /\ rect[4] > rect[2]
            THEN IF out.ret.kind = "return"
                 THEN UI([_update_all_displays(done, out.self) EXCEPT !.status = "Cropped."],
                         out.self, <<<<"crop", rect>>>>)
                 ELSE UI([done EXCEPT !.dialog = "Error"], out.self, <<<<"crop", rect>>>>)
            ELSE UI([done EXCEPT !.dialog = "Invalid"], self, <<>>)

\* The slider, bound to resize_var, has been moved to value and calls
\* resize_image with it.
resize_image(a, self, value) ==
    LET moved == [a EXCEPT !.resize_var = value, !.dialog = ""] IN
    IF self.current = None
    THEN UI(moved, self, <<>>)
    ELSE LET percent == value
             out == resize(self, percent)
         IN  UI([_update_all_displays(moved, out.self) EXCEPT
                     !.resize_label = percent, !.status = "Resized."],
                out.self, <<<<"resize", <<percent>>>>>>)

reset_image(a, self) ==
    IF self.original = None
    THEN UI([a EXCEPT !.dialog = "No Image"], self, <<>>)
    ELSE LET out == reset(self) IN
         UI([_update_all_displays(a, out.self) EXCEPT
                 !.resize_var = DEFAULT_RESIZE_PERCENT,
                 !.resize_label = DEFAULT_RESIZE_PERCENT,
                 !.status = "Reset to original.", !.dialog = ""],
            out.self, <<<<"reset", <<>>>>>>)

\* -------------------------------------------------------- Player (question2)
\* The fields of Player that the damage, healing and scoring code reads and
\* writes. Health is counted in halves of a point, since one enemy deals a
\* damage of 0.5: Health(100) is a health of 100 points.
Health(n) == 2 * n

\* Player.__init__(score)
Player(score) ==
    [health |-> Health(100), lives |-> 3, max_health |-> Health(100), score |-> score]

\* take_damage that does not stop at zero.
take_damage_unclamped(self, amount) ==
    Out([self EXCEPT !.health = self.health - amount], Return("None"))

take_damage(self, amount) ==
    LET health == self.health - amount IN
    Out([self EXCEPT !.health = IF health < 0 THEN 0 ELSE health], Return("None"))

collect_health(self, amount) ==
    LET health == self.health + amount IN
    Out([self EXCEPT !.health = IF health > self.max_health THEN self.max_health ELSE health],
        Return("None"))

increase_score(self, amount) ==
    LET score == self.score + amount IN
    Out([self EXCEPT !.score = IF score < 0 THEN 0 ELSE score], Return("None"))

\* maingame, the player touches a collectible of the given type.
collect_item(self, type) ==
    IF type = "health"
    THEN Out([self EXCEPT !.health = Min(Health(100), self.health + Health(20))],
             Return("None"))
    ELSE IF type = "life"
    THEN Out([self EXCEPT !.lives = self.lives + 1], Return("None"))
    ELSE Out(self, Return("None"))

\* ------------------------------------------------------------------ inputs
Paths == {"a.png", "b.png", "missing.png"}
SavePaths == {"out.png", "/nodir/out.png"}
CropCoords == {<<10, 10, 60, 60>>, <<2, 1, -4, 0>>, <<5, 5, 5, 9>>}
Percents == {0, 50, 200}

\* ----------------------------------------------------------------- actions
\* A call of method op with arguments arg and outcome out.
Call(op, arg, out) ==
    /\ img_mgr' = out.self
    /\ last' = [op |-> op, arg |-> arg, ret |-> out.ret, pre |-> img_mgr]
    /\ prev' = <<[op |-> last.op, ret |-> last.ret], prev[1]>>

Tick ==
    /\ steps < MaxSteps
    /\ steps' = steps + 1
    /\ UNCHANGED <<scen, trace, app, refs, player>>

Load == \E path \in Paths : Call("load", <<path>>, load(img_mgr, path)) /\ Tick
Save == \E path \in SavePaths : Call("save", <<path>>, save(img_mgr, path)) /\ Tick
Crop == \E coords \in CropCoords : Call("crop", coords, crop(img_mgr, coords)) /\ Tick
Resize == \E percent \in Percents : Call("resize", <<percent>>, resize(img_mgr, percent)) /\ Tick
Grayscale == Call("grayscale", <<>>, grayscale(img_mgr)) /\ Tick
Blur == Call("blur", <<>>, blur(img_mgr)) /\ Tick
Undo == Call("undo", <<>>, undo(img_mgr)) /\ Tick
Redo == Call("redo", <<>>, redo(img_mgr)) /\ Tick
Reset == Call("reset", <<>>, reset(img_mgr)) /\ Tick

NoCall == [op |-> "", ret |-> Return("None")]
NoScenario == [m |-> -1, u |-> 0, first |-> None, other |-> FALSE]

Init ==
    /\ img_mgr = NewImageManager
    /\ last = [op |-> "__init__", arg |-> <<>>, ret |-> Return("None"),
               pre |-> NewImageManager]
    /\ prev = <<NoCall, NoCall>>
    /\ steps = 0
    /\ app = NewApp
    /\ refs = NoRefs
    /\ player = Player(0)
    /\ scen = NoScenario
    /\ trace = <<>>

Next ==
    \/ Load
    \/ Save
    \/ Crop
    \/ Resize
    \/ Grayscale
    \/ Blur
    \/ Undo
    \/ Redo
    \/ Reset

Spec == Init /\ [][Next]_vars

\* ---------------------------------------------------- history-cap runs
\* Runs long enough to fill the undo stack: one file, blur as often as
\* MaxBlur allows, and one of the other mutating operations per loaded
\* image, once the stack is full and current (for resize, resize_base too)
\* is the product of at least HistoryLimit transformations.  scen follows
\* the scenario "a load, then m mutating operations, then u undo calls" and
\* remembers in scen.other that the other operation was made.
CapPaths == {"a.png"}
CapCoords == {<<1, 0, 1000, 1000>>}
CapPercents == {50}

Follow(sc, before, c, self) ==
    LET applied == c.op \in {"crop", "resize", "grayscale", "blur"}
                      /\ c.ret.kind = "return" /\ c.pre.current # None
        other == sc.other \/ (applied /\ c.op # "blur")
    IN
    CASE c.op = "load" /\ c.ret.kind = "return" ->
             [m |-> 0, u |-> 0, first |-> None, other |-> FALSE]
      [] applied /\ sc.m >= 0 /\ sc.u = 0 ->
             [m |-> sc.m + 1, u |-> 0,
              first |-> IF sc.m = 0 THEN self.current ELSE sc.first,
              other |-> other]
      [] c.op = "undo" /\ sc.m >= 1
            /\ (sc.u = 0 \/ (before.op = "undo" /\ before.ret = Return("True"))) ->
             [sc EXCEPT !.u = @ + 1]
      [] OTHER -> [NoScenario EXCEPT !.other = other]

Track ==
    /\ scen' = Follow(scen, last, last', img_mgr')
    /\ UNCHANGED <<steps, trace, app, refs, player>>

CapLoad == \E path \in CapPaths : Call("load", <<path>>, load(img_mgr, path)) /\ Track
CapBlur ==
    /\ Len(img_mgr.current.px) <= MaxBlur
    /\ Call("blur", <<>>, blur(img_mgr)) /\ Track
AtCap ==
    /\ Len(img_mgr.history) = HistoryLimit
    /\ Len(img_mgr.current.px) > HistoryLimit
    /\ Len(img_mgr.current.px) <= MaxBlur
    /\ ~scen.other
CapCrop ==
    /\ AtCap
    /\ \E coords \in CapCoords : Call("crop", coords, crop(img_mgr, coords)) /\ Track
CapResize ==
    /\ AtCap
    /\ Len(img_mgr.resize_base.px) > HistoryLimit
    /\ \E percent \in CapPercents :
           Call("resize", <<percent>>, resize(img_mgr, percent)) /\ Track
CapGrayscale ==
    /\ AtCap
    /\ Call("grayscale", <<>>, grayscale(img_mgr)) /\ Track
CapUndo == Call("undo", <<>>, undo(img_mgr)) /\ Track
CapRedo == Call("redo", <<>>, redo(img_mgr)) /\ Track
CapReset == Call("reset", <<>>, reset(img_mgr)) /\ Track

NextCap ==
    \/ CapLoad
    \/ CapBlur
    \/ CapCrop
    \/ CapResize
    \/ CapGrayscale
    \/ CapUndo
    \/ CapRedo
    \/ CapReset

SpecCap == Init /\ [][NextCap]_vars

\* ------------------------------------------------------ end-to-end runs
\* Runs of up to MaxCalls calls over the inputs of the end-to-end scenario:
\* the 100x100 file, the crop (10,10,60,60), resize to 200 percent, undo and
\* redo.  trace records the calls.
E2EPaths == {"a.png"}
E2ECoords == {<<10, 10, 60, 60>>}
E2EPercents == {200}

Record ==
    /\ Len(trace) < MaxCalls
    /\ trace' = Append(trace, <<last'.op, last'.arg>>)
    /\ UNCHANGED <<steps, scen, app, refs, player>>

E2ELoad == \E path \in E2EPaths : Call("load", <<path>>, load(img_mgr, path)) /\ Record
E2ECrop == \E coords \in E2ECoords : Call("crop", coords, crop(img_mgr, coords)) /\ Record
E2EResize ==
    \E percent \in E2EPercents :
        Call("resize", <<percent>>, resize(img_mgr, percent)) /\ Record
E2EUndo == Call("undo", <<>>, undo(img_mgr)) /\ Record
E2ERedo == Call("redo", <<>>, redo(img_mgr)) /\ Record

NextE2E ==
    \/ E2ELoad
    \/ E2ECrop
    \/ E2EResize
    \/ E2EUndo
    \/ E2ERedo

SpecE2E == Init /\ [][NextE2E]_vars

\* ------------------------------------------------------ user-interface runs
\* The window is driven by user events: opening a file, starting the crop
\* mode, pressing and releasing the mouse button on the canvas, moving the
\* resize slider, and resetting. The mouse events are bound only while the
\* crop mode is on, and the slider is enabled only once an image is loaded.
\* The log holds the ImageManager calls of the latest handler.
UIPaths == {"a.png", "missing.png"}
Points == {<<-5, 10>>, <<10, 10>>, <<29, 29>>, <<60, 60>>, <<120, 60>>}
SliderValues == {50}

Event(op, arg, res) ==
    /\ steps < MaxEvents
    /\ Call(op, arg, res)
    /\ app' = res.app
    /\ trace' = res.calls
    /\ steps' = steps + 1
    /\ UNCHANGED <<scen, refs, player>>

OpenImage ==
    \E path \in UIPaths : Event("open_image", <<path>>, open_image(app, img_mgr, path))

ActivateCrop == Event("activate_crop", <<>>, activate_crop(app, img_mgr))

StartCrop ==
    /\ app.cropping_mode
    /\ \E event \in Points : Event("_start_crop", event, _start_crop(app, img_mgr, event))

FinishCrop ==
    /\ app.cropping_mode
    /\ \E event \in Points :
           Event("_finish_crop", app.crop_start \o event, _finish_crop(app, img_mgr, event))

ResizeImage ==
    /\ app.buttons = "normal"
    /\ \E value \in SliderValues :
           Event("resize_image", <<value>>, resize_image(app, img_mgr, value))

ResetImage == Event("reset_image", <<>>, reset_image(app, img_mgr))

NextUI ==
    \/ OpenImage
    \/ ActivateCrop
    \/ StartCrop
    \/ FinishCrop
    \/ ResizeImage
    \/ ResetImage

SpecUI == Init /\ [][NextUI]_vars

\* ----------------------------------------------------------- ownership runs
\* Every method that assigns a field or a stack, on one file that loads and
\* one that does not, with the array identities followed along.
OwnedPaths == {"a.png", "missing.png"}
OwnedCoords == {<<10, 10, 60, 60>>}
OwnedPercents == {50}

Owned(op, arg, out, r) ==
    /\ steps < MaxOwned
    /\ Call(op, arg, out)
    /\ refs' = r
    /\ steps' = steps + 1
    /\ UNCHANGED <<scen, trace, app, player>>

OwnedLoad ==
    \E path \in OwnedPaths :
        Owned("load", <<path>>, load(img_mgr, path), load_refs(refs, img_mgr, path))

OwnedCrop ==
    \E coords \in OwnedCoords :
        Owned("crop", coords, crop(img_mgr, coords), crop_refs(refs, img_mgr, coords))

OwnedResize ==
    \E percent \in OwnedPercents :
        Owned("resize", <<percent>>, resize(img_mgr, percent),
              resize_refs(refs, img_mgr, percent))

OwnedGrayscale == Owned("grayscale", <<>>, grayscale(img_mgr), grayscale_refs(refs, img_mgr))
OwnedBlur == Owned("blur", <<>>, blur(img_mgr), blur_refs(refs, img_mgr))
OwnedUndo == Owned("undo", <<>>, undo(img_mgr), undo_refs(refs, img_mgr))
OwnedRedo == Owned("redo", <<>>, redo(img_mgr), redo_refs(refs, img_mgr))
OwnedReset == Owned("reset", <<>>, reset(img_mgr), reset_refs(refs, img_mgr))

NextOwned ==
    \/ OwnedLoad
    \/ OwnedCrop
    \/ OwnedResize
    \/ OwnedGrayscale
    \/ OwnedBlur
    \/ OwnedUndo
    \/ OwnedRedo
    \/ OwnedReset

SpecOwned == Init /\ [][NextOwned]_vars

\* ---------------------------------------------------------------- game runs
\* What the game does to the player: the enemies deal a damage of 1, 2, 0.5
\* and 3 on contact and their projectiles one of 10; a killed enemy scores
\* 10; a collectible heals or gives a life; the next level makes a new
\* player with the score reached, a restart one with a score of 0.
\* collect_health has no caller in the game; it runs with the amount a health
\* item heals.
Damages == {1, Health(1), Health(2), Health(3), Health(10)}
Heals == {Health(20)}
Gains == {10}
ItemTypes == {"health", "life"}

Game(op, arg, out) ==
    /\ player' = out.self
    /\ last' = [op |-> op, arg |-> arg, ret |-> out.ret, pre |-> player]
    /\ UNCHANGED <<img_mgr, prev, steps, scen, trace, app, refs>>

TakeDamage ==
    \E amount \in Damages : Game("take_damage", <<amount>>, take_damage(player, amount))

CollectHealth ==
    \E amount \in Heals : Game("collect_health", <<amount>>, collect_health(player, amount))

IncreaseScore ==
    /\ player.score < 10 * MaxKills
    /\ \E amount \in Gains : Game("increase_score", <<amount>>, increase_score(player, amount))

CollectItem ==
    /\ player.lives < MaxLives
    /\ \E type \in ItemTypes : Game("collect_item", <<type>>, collect_item(player, type))

NextLevel == Game("maingame", <<player.score>>, Out(Player(player.score), Return("None")))

Restart == Game("maingame", <<0>>, Out(Player(0), Return("None")))

NextGame ==
    \/ TakeDamage
    \/ CollectHealth
    \/ IncreaseScore
    \/ CollectItem
    \/ NextLevel
    \/ Restart

SpecGame == Init /\ [][NextGame]_vars

\* ------------------------------------------------------------- vocabulary
Mutators == {"crop", "resize", "grayscale", "blur"}
Returned(c) == c.ret.kind = "return"
ReturnedTrue(c) == c.ret = Return("True")
\* The session is loaded (state Loaded of the engine).
Loaded(self) == self.current # None
\* Call c was a mutating operation that returned normally.
Mutated(c) == c.op \in Mutators /\ Returned(c)
\* The last call was a mutating operation on a loaded session that went
\* through: it replaced current.
Applied == Mutated(last) /\ Loaded(last.pre)
Top(stack) == stack[Len(stack)]

\* C2: every crop, resize, grayscale or blur that goes through leaves the
\* pre-operation current on top of the undo stack, above the entries that
\* were there, and leaves the redo stack empty.
C2_PushBeforeMutation ==
    Applied =>
        /\ img_mgr.history # <<>>
        /\ Top(img_mgr.history) = last.pre.current
        /\ Len(last.pre.history) < HistoryLimit
              => img_mgr.history = Append(last.pre.history, last.pre.current)
        /\ img_mgr.redo_stack = <<>>

C2_Witness ==
    /\ Applied
    /\ last.op = "grayscale"
    /\ last.pre.redo_stack # <<>>
    /\ last.pre.history # <<>>
    /\ img_mgr.current # last.pre.current

\* C3 (as claimed): right after a load, crop, grayscale, blur, undo, redo or
\* reset that went through, resize_base equals current.
C3_ResizeBaseFollowsCurrent ==
    (/\ Loaded(img_mgr)
     /\ \/ last.op \in {"load", "crop"} /\ Returned(last)
        \/ last.op \in {"grayscale", "blur"} /\ Applied
        \/ last.op \in {"undo", "redo", "reset"} /\ ReturnedTrue(last))
    => img_mgr.resize_base = img_mgr.current

\* C4: resize leaves resize_base alone and makes current the resize_base
\* resampled to percent of its size, whatever current was before; from a
\* 50x50 resize_base, 50 percent gives 25x25 and 200 percent gives 100x100.
C4_ResizeFromBase ==
    (last.op = "resize" /\ Loaded(last.pre)) =>
        LET percent == last.arg[1]
            base == img_mgr.resize_base
            cur == img_mgr.current
        IN  /\ base = last.pre.resize_base
            /\ cur.w = Max(1, PyInt(base.w * percent, 100))
            /\ cur.h = Max(1, PyInt(base.h * percent, 100))
            /\ cur = cv2_resize(base, cur.w, cur.h)
            /\ (base.w = 50 /\ base.h = 50 /\ percent = 50) => (cur.w = 25 /\ cur.h = 25)
            /\ (base.w = 50 /\ base.h = 50 /\ percent = 200) => (cur.w = 100 /\ cur.h = 100)

C4_Witness ==
    /\ last.op = "resize" /\ last.arg = <<200>>
    /\ prev[1].op = "resize"
    /\ last.pre.current.w = 25 /\ last.pre.current.h = 25
    /\ img_mgr.resize_base.w = 50 /\ img_mgr.resize_base.h = 50
    /\ img_mgr.current.w = 100 /\ img_mgr.current.h = 100

\* C5: an undo right after a mutating operation succeeds and gives back the
\* pre-operation current; a redo right after that undo succeeds and gives
\* back the post-operation current.
C5_UndoRedoOneOperation ==
    [][/\ (Applied /\ last'.op = "undo")
          => (ReturnedTrue(last') /\ img_mgr'.current = last.pre.current)
       /\ (last.op = "undo" /\ ReturnedTrue(last) /\ Mutated(prev[1]) /\ last'.op = "redo")
          => (ReturnedTrue(last') /\ img_mgr'.current = last.pre.current)]_vars

C5_Witness ==
    /\ last.op = "redo" /\ ReturnedTrue(last)
    /\ prev[1].op = "undo" /\ ReturnedTrue(prev[1])
    /\ Mutated(prev[2])
    /\ img_mgr.current # last.pre.current
    /\ Top(img_mgr.history) = last.pre.current

\* C6: after an undo followed by a mutating operation that went through, the
\* redo stack is empty, and a redo then returns False and changes nothing.
C6_MutationAfterUndoKillsRedo ==
    [][(Applied /\ prev[1].op = "undo" /\ ReturnedTrue(prev[1])) =>
          /\ img_mgr.redo_stack = <<>>
          /\ last'.op = "redo" => (last'.ret = Return("False") /\ img_mgr' = img_mgr)]_vars

C6_Witness ==
    /\ last.op = "redo" /\ last.ret = Return("False")
    /\ Mutated(prev[1])
    /\ prev[2].op = "undo" /\ ReturnedTrue(prev[2])
    /\ img_mgr = last.pre
    /\ img_mgr.history # <<>>

\* The size resize asks for truncates to less than 1 in a dimension.
Degenerate(base, percent) ==
    PyInt(base.w * percent, 100) < 1 \/ PyInt(base.h * percent, 100) < 1

Clamped(img, coords) ==
    [x1 |-> Max(0, Min(coords[1], coords[3])),
     x2 |-> Min(img.w, Max(coords[1], coords[3])),
     y1 |-> Max(0, Min(coords[2], coords[4])),
     y2 |-> Min(img.h, Max(coords[2], coords[4]))]

\* C9: a crop whose ordered, clamped rectangle has no width or no height
\* raises the invalid-region error ("Invalid crop area.") and leaves
\* current, resize_base and both stacks as they were.
C9_DegenerateCropRejected ==
    (last.op = "crop" /\ Loaded(last.pre)) =>
        LET r == Clamped(last.pre.current, last.arg) IN
        (r.x2 - r.x1 <= 0 \/ r.y2 - r.y1 <= 0)
        => /\ last.ret = Raise("ValueError: Invalid crop area.")
           /\ img_mgr = last.pre

C9_Witness ==
    /\ last.op = "crop" /\ last.arg = <<5, 5, 5, 9>>
    /\ last.ret.kind = "raise"
    /\ img_mgr.history # <<>>
    /\ img_mgr.redo_stack # <<>>

\* C10: after a load that went through, current, original and resize_base
\* are the decoded image and both stacks are empty, whatever the session
\* held before.
C10_LoadStartsFresh ==
    (last.op = "load" /\ Returned(last)) =>
        /\ imread(last.arg[1]) # None
        /\ img_mgr.current = imread(last.arg[1])
        /\ img_mgr.original = imread(last.arg[1])
        /\ img_mgr.resize_base = imread(last.arg[1])
        /\ img_mgr.history = <<>>
        /\ img_mgr.redo_stack = <<>>

C10_Witness ==
    /\ last.op = "load" /\ Returned(last)
    /\ Loaded(last.pre)
    /\ last.pre.history # <<>>
    /\ last.pre.redo_stack # <<>>
    /\ last.pre.original # img_mgr.original

\* C1: the undo stack never holds more than 20 entries, and a mutating
\* operation on a full stack drops the oldest entry: the other 19 keep
\* their order under the new top.
C1_HistoryBounded ==
    /\ Len(img_mgr.history) <= HistoryLimit
    /\ (Applied /\ Len(last.pre.history) = HistoryLimit)
         => img_mgr.history = Append(Tail(last.pre.history), last.pre.current)

C1_Witness ==
    /\ Applied
    /\ Len(last.pre.history) = HistoryLimit
    /\ Len(img_mgr.history) = HistoryLimit
    /\ Head(img_mgr.history) # Head(last.pre.history)
    /\ prev[1].op = "redo"

\* C7: after a load and 21 mutating operations, undo returns True 20 times
\* and False the 21st time, and current is then the image the first
\* mutation produced, not the loaded one.
C7_TwentyUndos ==
    (scen.m = HistoryLimit + 1 /\ scen.u >= 1) =>
        /\ last.op = "undo"
        /\ ReturnedTrue(last) <=> scen.u <= HistoryLimit
        /\ last.ret = Return("False") <=> scen.u = HistoryLimit + 1
        /\ scen.u <= HistoryLimit + 1
        /\ scen.u >= HistoryLimit
             => /\ img_mgr.current = scen.first
                /\ img_mgr.current # img_mgr.original
                /\ img_mgr.history = <<>>

C7_Witness ==
    /\ scen.m = HistoryLimit + 1
    /\ scen.u = HistoryLimit + 1
    /\ last.op = "undo" /\ last.ret = Return("False")
    /\ prev[1].op = "undo" /\ ReturnedTrue(prev[1])
    /\ img_mgr.current = scen.first
    /\ Len(img_mgr.redo_stack) = HistoryLimit

\* C11: a load of a file that cannot be read or decoded raises the load
\* error and leaves original, current, resize_base and both stacks as they
\* were, in the Empty state and in a loaded session.
C11_FailedLoadChangesNothing ==
    (last.op = "load" /\ imread(last.arg[1]) = None) =>
        /\ last.ret = Raise("ValueError: Failed to load image.")
        /\ img_mgr = last.pre

C11_Witness ==
    /\ last.op = "load" /\ last.ret.kind = "raise"
    /\ Loaded(img_mgr)
    /\ img_mgr.history # <<>>
    /\ img_mgr.redo_stack # <<>>
    /\ img_mgr.original # img_mgr.current

\* C12: original changes only in a load that goes through: no crop, resize,
\* grayscale, blur, undo, redo, reset, save or failed load alters it.
C12_OriginalFixedBetweenLoads ==
    [][~(last'.op = "load" /\ Returned(last'))
          => img_mgr'.original = img_mgr.original]_vars

C12_Witness ==
    /\ Applied
    /\ last.op = "grayscale"
    /\ Mutated(prev[1])
    /\ img_mgr.original = last.pre.original
    /\ img_mgr.original # img_mgr.current
    /\ img_mgr.original # None

\* The object right after a load of the image now in original.
PostLoad(self) ==
    [original |-> self.original, current |-> self.original,
     resize_base |-> self.original, history |-> <<>>, redo_stack |-> <<>>]

\* C13: reset in a loaded session returns True and puts the session back in
\* its state after the load; an undo or a redo right after it returns False
\* and changes nothing.
C13_ResetRestoresPostLoad ==
    [][/\ (last'.op = "reset" /\ Loaded(img_mgr))
          => (ReturnedTrue(last') /\ img_mgr' = PostLoad(img_mgr))
       /\ (last.op = "reset" /\ ReturnedTrue(last) /\ last'.op \in {"undo", "redo"})
          => (last'.ret = Return("False") /\ img_mgr' = img_mgr)]_vars

C13_Witness ==
    /\ last.op = "undo" /\ last.ret = Return("False")
    /\ prev[1].op = "reset" /\ ReturnedTrue(prev[1])
    /\ Mutated(prev[2])
    /\ img_mgr = PostLoad(img_mgr)
    /\ Loaded(img_mgr)

\* C14: undo on an empty undo stack, redo on an empty redo stack and reset
\* without an original return False, raise nothing and change no field.
C14_NothingToDoIsFalse ==
    (\/ last.op = "undo" /\ last.pre.history = <<>>
     \/ last.op = "redo" /\ last.pre.redo_stack = <<>>
     \/ last.op = "reset" /\ last.pre.original = None)
    => (last.ret = Return("False") /\ img_mgr = last.pre)

C14_Witness ==
    /\ last.op = "undo" /\ last.ret = Return("False")
    /\ prev[1].op = "redo" /\ prev[1].ret = Return("False")
    /\ prev[2].op = "reset" /\ prev[2].ret = Return("False")
    /\ img_mgr = NewImageManager

\* The rectangle with its two corner points exchanged.
Swapped(coords) == <<coords[3], coords[4], coords[1], coords[2]>>

\* C15: a crop has the outcome the crop with the two corners exchanged has
\* from the same state: the same error or the same resulting object.
C15_CropCornerOrder ==
    last.op = "crop" =>
        Out(img_mgr, last.ret) = crop(last.pre, Swapped(last.arg))

C15_Witness ==
    /\ last.op = "crop" /\ last.arg = <<2, 1, -4, 0>>
    /\ Returned(last)
    /\ img_mgr.current.w = 2 /\ img_mgr.current.h = 1
    /\ last.pre.current.w = 100

\* C16: a crop that goes through makes current the part of the pre-crop
\* current inside the ordered rectangle clamped to [0,w] x [0,h]: its
\* width is x2-x1 and its height y2-y1 of that rectangle, each at least 1
\* and at most the pre-crop dimension.
C16_CropToClampedRectangle ==
    (last.op = "crop" /\ Returned(last)) =>
        LET before == last.pre.current
            x1 == IF last.arg[1] <= last.arg[3] THEN last.arg[1] ELSE last.arg[3]
            x2 == IF last.arg[1] <= last.arg[3] THEN last.arg[3] ELSE last.arg[1]
            y1 == IF last.arg[2] <= last.arg[4] THEN last.arg[2] ELSE last.arg[4]
            y2 == IF last.arg[2] <= last.arg[4] THEN last.arg[4] ELSE last.arg[2]
            cx1 == IF x1 < 0 THEN 0 ELSE x1
            cx2 == IF x2 > before.w THEN before.w ELSE x2
            cy1 == IF y1 < 0 THEN 0 ELSE y1
            cy2 == IF y2 > before.h THEN before.h ELSE y2
            cur == img_mgr.current
        IN  /\ cur.w = cx2 - cx1 /\ cur.h = cy2 - cy1
            /\ cur.w >= 1 /\ cur.w <= before.w
            /\ cur.h >= 1 /\ cur.h <= before.h
            /\ cur = Slice(before, cy1, cy2, cx1, cx2)
            /\ cur.ch = before.ch

C16_Witness ==
    /\ last.op = "crop" /\ last.arg = <<2, 1, -4, 0>>
    /\ Returned(last)
    /\ last.pre.current.w = 50 /\ last.pre.current.h = 50
    /\ img_mgr.current.w = 2 /\ img_mgr.current.h = 1
    /\ img_mgr.current.px =
          <<<<"a.png">>, <<"crop", 10, 10, 60, 60>>, <<"crop", 0, 0, 2, 1>>>>

\* The calls of the end-to-end scenario and the images it goes through.
Scenario ==
    << <<"load", <<"a.png">>>>, <<"crop", <<10, 10, 60, 60>>>>, <<"resize", <<200>>>>,
       <<"undo", <<>>>>, <<"undo", <<>>>>, <<"redo", <<>>>>, <<"redo", <<>>>> >>
Image100 == [w |-> 100, h |-> 100, ch |-> 3, px |-> <<<<"a.png">>>>]
Cropped50 ==
    [w |-> 50, h |-> 50, ch |-> 3,
     px |-> <<<<"a.png">>, <<"crop", 10, 10, 60, 60>>>>]
Resized100 ==
    [w |-> 100, h |-> 100, ch |-> 3,
     px |-> <<<<"a.png">>, <<"crop", 10, 10, 60, 60>>, <<"resize", 100, 100>>>>]
\* The first n calls made are the first n calls of the scenario, and no more.
After(n) == trace = SubSeq(Scenario, 1, n)

\* C17: load the 100x100 image, crop (10,10,60,60): current and resize_base
\* are the 50x50 crop; resize(200): current is the crop resampled to
\* 100x100; undo: current is the crop; undo: current is the loaded image;
\* redo twice: the crop, then the resized image.
C17_EndToEnd ==
    /\ After(1) => img_mgr.current = Image100
    /\ After(2) => (img_mgr.current = Cropped50 /\ img_mgr.resize_base = Cropped50)
    /\ After(3) => (img_mgr.current = Resized100 /\ img_mgr.resize_base = Cropped50
                     /\ img_mgr.history = <<Image100, Cropped50>>)
    /\ After(4) => (ReturnedTrue(last) /\ img_mgr.current = Cropped50)
    /\ After(5) => (ReturnedTrue(last) /\ img_mgr.current = Image100
                     /\ img_mgr.current = img_mgr.original)
    /\ After(6) => (ReturnedTrue(last) /\ img_mgr.current = Cropped50)
    /\ After(7) => (ReturnedTrue(last) /\ img_mgr.current = Resized100
                     /\ img_mgr.history = <<Image100, Cropped50>>
                     /\ img_mgr.redo_stack = <<>>)

C17_Witness ==
    /\ After(7)
    /\ img_mgr.current = Resized100
    /\ img_mgr.original = Image100

\* C18: save changes no field of the session, whether it goes through or
\* raises, and it raises when no image is loaded.
C18_SaveChangesNothing ==
    last.op = "save" =>
        /\ img_mgr = last.pre
        /\ ~Loaded(last.pre) => last.ret = Raise("ValueError: No image to save.")
        /\ Loaded(last.pre) =>
              last.ret \in {Return("None"), Raise("ValueError: Failed to save image.")}

C18_Witness ==
    /\ last.op = "save" /\ last.ret.kind = "raise"
    /\ prev[1].op = "save" /\ Returned(prev[1])
    /\ Loaded(img_mgr)
    /\ img_mgr.history # <<>>
    /\ img_mgr.current # img_mgr.original

\* C19: current appears only in a load that goes through, and once it is
\* there every later call, whatever its outcome, leaves a current.
C19_LoadedStaysLoaded ==
    [][/\ Loaded(img_mgr) => Loaded(img_mgr')
       /\ (~Loaded(img_mgr) /\ Loaded(img_mgr'))
            => (last'.op = "load" /\ Returned(last'))]_vars

C19_Witness ==
    /\ Loaded(img_mgr)
    /\ last.op = "load" /\ last.ret.kind = "raise"
    /\ prev[1].op = "crop" /\ prev[1].ret.kind = "raise"
    /\ prev[2].op = "undo" /\ prev[2].ret = Return("False")

\* C20 (as claimed): the target size of resize is max(1, round(w*percent/100))
\* by max(1, round(h*percent/100)): rounded to the nearest pixel.
C20_ResizeRounds ==
    (last.op = "resize" /\ Loaded(last.pre)) =>
        LET base == last.pre.resize_base
            percent == last.arg[1]
        IN  /\ img_mgr.current.w = Max(1, PyRound(base.w * percent, 100))
            /\ img_mgr.current.h = Max(1, PyRound(base.h * percent, 100))

\* The integer part of n/100: the fraction is dropped.
Truncated(n) == IF n >= 0 THEN n \div 100 ELSE -((-n) \div 100)

\* C20 (amended): the target size of resize is max(1, int(w*percent/100))
\* by max(1, int(h*percent/100)): the fraction is dropped, so a 3-pixel
\* side at 50 percent gives 1.
C20_ResizeTruncates ==
    (last.op = "resize" /\ Loaded(last.pre)) =>
        LET base == last.pre.resize_base
            percent == last.arg[1]
            tw == Truncated(base.w * percent)
            th == Truncated(base.h * percent)
        IN  /\ img_mgr.current.w = (IF tw >= 1 THEN tw ELSE 1)
            /\ img_mgr.current.h = (IF th >= 1 THEN th ELSE 1)
            /\ (base.w = 3 /\ percent = 50) => img_mgr.current.w = 1

C20_Witness ==
    /\ last.op = "resize" /\ last.arg = <<50>>
    /\ last.pre.resize_base.w = 3
    /\ img_mgr.current.w = 1
    /\ img_mgr.current.w # PyRound(3 * 50, 100)

\* C24 (as claimed): a resize(p) that directly follows a grayscale() or blur()
\* leaves current equal to the post-effect image resampled to p percent of
\* its size.
C24_EffectSurvivesResize ==
    (/\ last.op = "resize" /\ Applied
     /\ prev[1].op \in {"grayscale", "blur"} /\ Returned(prev[1]))
    => img_mgr.current =
           cv2_resize(last.pre.current,
                      Max(1, PyInt(last.pre.current.w * last.arg[1], 100)),
                      Max(1, PyInt(last.pre.current.h * last.arg[1], 100)))

\* C25: in every reachable state the undo stack and the redo stack together
\* hold at most 20 entries, so redo, which appends to the undo stack without
\* applying the cap, never makes the undo stack longer than 20.
C25_StacksTogetherBounded ==
    Len(img_mgr.history) + Len(img_mgr.redo_stack) <= HistoryLimit

\* The two stacks hold 20 entries together right after a redo that went
\* through, with further redos still pending.
C25_Witness ==
    /\ last.op = "redo" /\ ReturnedTrue(last)
    /\ img_mgr.redo_stack # <<>>
    /\ Len(img_mgr.history) + Len(img_mgr.redo_stack) = HistoryLimit

\* The object a logged call leaves behind, and the object a whole log of
\* calls builds from a new ImageManager.
Apply(self, call) ==
    CASE call[1] = "load" -> load(self, call[2][1]).self
      [] call[1] = "crop" -> crop(self, call[2]).self
      [] call[1] = "resize" -> resize(self, call[2][1]).self
      [] call[1] = "undo" -> undo(self).self
      [] call[1] = "redo" -> redo(self).self

RECURSIVE Replay(_)
Replay(calls) ==
    IF calls = <<>>
    THEN NewImageManager
    ELSE Apply(Replay(SubSeq(calls, 1, Len(calls) - 1)), calls[Len(calls)])

\* The log ends with k undos followed by k redos, and the undo stack held at
\* least k entries before them (so every one of the undos went through).
EndsWithUndosRedos(k) ==
    LET n == Len(trace) IN
    /\ n >= 2 * k
    /\ \A i \in 1..k : trace[n - k - i + 1][1] = "undo" /\ trace[n - i + 1][1] = "redo"
    /\ Len(Replay(SubSeq(trace, 1, n - 2 * k)).history) >= k

\* C26: k successful undos directly followed by k redos (k = 1: an undo
\* directly followed by a redo) leave current, the undo stack and the redo
\* stack exactly as they were before the first of the undos.
C26_UndosThenRedosRestore ==
    \A k \in 1..MaxCalls :
        EndsWithUndosRedos(k) =>
            LET start == Replay(SubSeq(trace, 1, Len(trace) - 2 * k)) IN
            /\ img_mgr.current = start.current
            /\ img_mgr.history = start.history
            /\ img_mgr.redo_stack = start.redo_stack

\* Two undos and two redos have run on a two-entry history with two
\* different images in it.
C26_Witness ==
    /\ EndsWithUndosRedos(2)
    /\ Len(img_mgr.history) = 2
    /\ img_mgr.history[1] # img_mgr.history[2]
    /\ img_mgr.current # img_mgr.history[2]

\* C27: undo does not bring back the resize base of the undone operation:
\* right after an undo that went through resize_base equals the restored
\* current, and a resize(q) that follows resamples that restored current to
\* q percent of its size.
C27_UndoRebasesResize ==
    /\ (last.op = "undo" /\ ReturnedTrue(last))
        => img_mgr.resize_base = img_mgr.current
    /\ (/\ last.op = "resize" /\ Applied
        /\ prev[1].op = "undo" /\ ReturnedTrue(prev[1]))
        => /\ img_mgr.resize_base = last.pre.current
           /\ img_mgr.current =
                  cv2_resize(last.pre.current,
                             Max(1, PyInt(last.pre.current.w * last.arg[1], 100)),
                             Max(1, PyInt(last.pre.current.h * last.arg[1], 100)))

\* load of the 100x100 file, resize(50), resize(200), undo, resize(200): the
\* result is 100x100, scaled from the restored 50x50 image, not 200x200.
C27_Witness ==
    /\ last.op = "resize" /\ last.arg = <<200>>
    /\ prev[1].op = "undo" /\ ReturnedTrue(prev[1])
    /\ prev[2].op = "resize"
    /\ img_mgr.original.w = 100 /\ img_mgr.original.h = 100
    /\ last.pre.current.w = 50 /\ last.pre.current.h = 50
    /\ Len(last.pre.redo_stack) = 1 /\ last.pre.redo_stack[1].w = 200
    /\ img_mgr.current.w = 100 /\ img_mgr.current.h = 100
    /\ img_mgr.current # img_mgr.original

\* C28: while no load has succeeded, every call other than a successful load
\* (crop, resize, grayscale, blur, undo, redo, reset, save, a failing load)
\* leaves original, current and resize_base absent and both stacks empty,
\* whether it returns, reports that there was nothing to do, or raises.
C28_EmptyStaysEmpty ==
    /\ ~Loaded(img_mgr) => img_mgr = NewImageManager
    /\ (~Loaded(last.pre) /\ ~(last.op = "load" /\ Returned(last)))
        => img_mgr = NewImageManager

\* Three calls in a row on the empty object: one reporting nothing to do, one
\* returning silently and one raising.
C28_Witness ==
    /\ ~Loaded(last.pre)
    /\ last.op = "crop" /\ last.ret.kind = "raise"
    /\ prev[1].op \in {"resize", "grayscale", "blur"} /\ Returned(prev[1])
    /\ prev[2].op \in {"undo", "redo", "reset"} /\ prev[2].ret = Return("False")
    /\ img_mgr = NewImageManager

\* C21 (as claimed): the crop region resolver orders the two corners of the
\* drag, so a drag from one point to another and the drag back over the same
\* two points make the same ImageManager calls and leave the same images.
C21_DragDirectionIrrelevant ==
    \A event \in Points :
        (app.cropping_mode /\ app.crop_start # <<>>) =>
            LET there == _finish_crop(app, img_mgr, event)
                back == _finish_crop([app EXCEPT !.crop_start = event],
                                     img_mgr, app.crop_start)
            IN  /\ there.calls = back.calls
                /\ there.self = back.self

\* The reference mapping of a view-space offset n along an extent w drawn
\* from c pixels: the relative position clamped into [0, 1] on both sides,
\* times c, rounded.
RoundedRel(n, w, c) ==
    IF n <= 0 THEN 0 ELSE IF n >= w THEN c ELSE PyRound(n * c, w)

\* C22 (as claimed): the rectangle the crop region resolver works out for a
\* drag is the reference mapping of the two corners (each relative coordinate
\* clamped into [0, 1] on both sides, then round(rel * width) and
\* round(rel * height)); crop is called with it when its area is positive,
\* and otherwise the region is reported invalid and crop is not called.
C22_RegionMatchesReference ==
    (last.op = "_finish_crop" /\ Len(last.arg) = 4 /\ Loaded(last.pre)) =>
        LET w == last.pre.current.w
            h == last.pre.current.h
            ref == <<RoundedRel(last.arg[1], w, w), RoundedRel(last.arg[2], h, h),
                     RoundedRel(last.arg[3], w, w), RoundedRel(last.arg[4], h, h)>>
        IN  IF ref[3] > ref[1] /\ ref[4] > ref[2]
            THEN trace = <<<<"crop", ref>>>>
            ELSE trace = <<>> /\ app.dialog = "Invalid" /\ img_mgr = last.pre

\* C29: every rectangle that _finish_crop passes to ImageManager.crop lies
\* inside current with a positive area (0 <= x1 < x2 <= width and
\* 0 <= y1 < y2 <= height), so the crop is not rejected and cuts out exactly
\* that rectangle, with nothing left to clamp.
C29_UICropWithinImage ==
    (last.op = "_finish_crop") =>
        \A i \in 1..Len(trace) :
            trace[i][1] = "crop" =>
                LET r == trace[i][2] IN
                /\ 0 <= r[1] /\ r[1] < r[3] /\ r[3] <= last.pre.current.w
                /\ 0 <= r[2] /\ r[2] < r[4] /\ r[4] <= last.pre.current.h
                /\ app.dialog # "Error"
                /\ img_mgr.current = Slice(last.pre.current, r[2], r[4], r[1], r[3])
                /\ img_mgr.history = Append(last.pre.history, last.pre.current)

\* A drag from left of the image to right of it: both clamps of the resolver
\* were needed, and the crop went through over the full width.
C29_Witness ==
    /\ last.op = "_finish_crop"
    /\ last.arg = <<-5, 10, 120, 60>>
    /\ trace = <<<<"crop", <<0, 10, 100, 60>>>>>>
    /\ img_mgr.current.w = 100 /\ img_mgr.current.h = 50
    /\ app.status = "Cropped."

\* C30 (as claimed): after every successful load through open_image and
\* after every reset through reset_image the resize slider and its label
\* show the default 100 percent, and current is resize_base at 100 percent.
C30_SliderBackToDefault ==
    (/\ last.op \in {"open_image", "reset_image"}
     /\ trace # <<>> /\ app.dialog = "")
    => /\ app.resize_var = DEFAULT_RESIZE_PERCENT
       /\ app.resize_label = DEFAULT_RESIZE_PERCENT
       /\ img_mgr.current = img_mgr.resize_base

\* The references the object holds, in one list.
Holders(r) == <<r.original, r.current, r.resize_base>> \o r.history \o r.redo_stack

\* C23: in every reachable state original, current, resize_base and every
\* entry of the undo and redo stacks are arrays of their own: no two of them
\* are the same object, whatever methods have run (before the first load
\* there are no arrays, and the stacks mirror the ones of the images).
C23_NoSharedArrays ==
    /\ Len(refs.history) = Len(img_mgr.history)
    /\ Len(refs.redo_stack) = Len(img_mgr.redo_stack)
    /\ IF Loaded(img_mgr)
       THEN LET all == Holders(refs) IN
            /\ \A i \in 1..Len(all) : all[i] # 0
            /\ \A i, j \in 1..Len(all) : i # j => all[i] # all[j]
       ELSE refs = NoRefs

\* After mutations, undos and a redo, both stacks hold arrays next to the
\* three fields.
C23_Witness ==
    /\ last.op = "redo" /\ ReturnedTrue(last)
    /\ prev[1].op = "undo" /\ ReturnedTrue(prev[1])
    /\ Len(refs.history) >= 1
    /\ Len(refs.redo_stack) >= 1
    /\ Cardinality(Held(refs)) = 3 + Len(refs.history) + Len(refs.redo_stack)

\* C31: a grayscale or blur that is applied leaves the width, the height and
\* the number of channels of current as they were, and in every reachable
\* state of a loaded session current has the number of channels of the
\* loaded image.
C31_EffectsKeepShape ==
    /\ (last.op \in {"grayscale", "blur"} /\ Applied)
        => /\ img_mgr.current.w = last.pre.current.w
           /\ img_mgr.current.h = last.pre.current.h
           /\ img_mgr.current.ch = last.pre.current.ch
    /\ Loaded(img_mgr) => img_mgr.current.ch = img_mgr.original.ch

\* A grayscale right after a blur, on an image that a crop or a resize had
\* given another size than the loaded one: the pixels changed, the shape did
\* not.
C31_Witness ==
    /\ last.op = "grayscale" /\ Applied
    /\ prev[1].op = "blur" /\ Returned(prev[1])
    /\ img_mgr.current # last.pre.current
    /\ img_mgr.current.w # img_mgr.original.w
    /\ img_mgr.current.w = last.pre.current.w
    /\ img_mgr.current.ch = 3

\* C32: in the game, whatever damage, healing, item pickups and scoring have
\* happened, the player's health lies between 0 and max_health (100) and the
\* player's score is not negative.
C32_HealthAndScoreInRange ==
    /\ 0 <= player.health
    /\ player.health <= player.max_health
    /\ player.max_health = Health(100)
    /\ player.score >= 0

\* A hit worth more than the health that was left has brought the health to
\* exactly 0, on a player who had scored before.
C32_Witness ==
    /\ last.op = "take_damage"
    /\ last.pre.health > 0
    /\ last.pre.health < last.arg[1]
    /\ player.health = 0
    /\ player.score > 0

====
